---------------------------- MODULE Spec2Model ----------------------------
(***************************************************************************)
(* PhysioFit: the kinetic model DegAndLag (physiofit/models/model_1.py)    *)
(* and the fitting engine PhysioFitter (physiofit/base/fitter.py).         *)
(*                                                                         *)
(* Numbers.  A float is a pair <<n, d>>: the rational n/d in lowest terms  *)
(* when d > 0, and the IEEE specials when d = 0: <<0,0>> is NaN, <<1,0>>   *)
(* is +inf, <<-1,0>> is -inf.  np.exp is taken on integer arguments only   *)
(* and with base 2 (a change of the time unit by ln 2): it keeps           *)
(* exp(0) = 1, exp(a+b) = exp(a)exp(b) and strict monotonicity.            *)
(* np.std is carried as its square (the population variance).              *)
(***************************************************************************)
EXTENDS Integers, Sequences, FiniteSets, TLC

VARIABLES
    \* ---- DegAndLag (model_1.py) ----
    metabolites,            \* self.metabolites (from the data)
    time_vector,            \* self.time_vector (from the data)
    parameters_to_estimate, \* self.parameters_to_estimate
    bounds,                 \* self.bounds, a dict in insertion order
    initial_values,         \* self.initial_values
    sim_args,               \* arguments of the last call of simulate
    sim_ret,                \* what that call returned or raised
    \* ---- PhysioFitter (fitter.py) ----
    columns,                \* self.data.columns
    name_vector,            \* self.model.name_vector
    experimental_matrix,    \* self.experimental_matrix
    sd,                     \* self.sd
    sd_given,               \* the sd the engine was constructed with
    cost_args,              \* arguments of the last call of _calculate_cost
    cost_ret,               \* its return value
    params,                 \* self.params
    iterations,             \* self.iterations
    optimize_results,       \* self.optimize_results
    simulated_matrix,       \* self.simulated_matrix
    simulated_data,         \* self.simulated_data
    parameter_stats,        \* self.parameter_stats
    matrices_ci,            \* self.matrices_ci
    khi2_res,               \* self.khi2_res
    called,                 \* the method called last
    raised,                 \* the exception that call raised ("" if none)
    mc_draws,               \* the noise draws of the last Monte-Carlo run
    n_noise,                \* calls of _apply_noise made by the last call
    n_opt                   \* calls of _run_optimization made by the last call

model_vars == <<metabolites, time_vector, parameters_to_estimate, bounds,
                initial_values, sim_args, sim_ret>>
sd_vars == <<columns, name_vector, sd, sd_given>>
cost_vars == <<cost_args, cost_ret>>
fit_vars == <<params, iterations, optimize_results, simulated_matrix,
              simulated_data, parameter_stats, matrices_ci, khi2_res,
              mc_draws, n_noise, n_opt>>
vars == <<model_vars, sd_vars, cost_vars, fit_vars, experimental_matrix,
          called, raised>>

None == <<>>

(***************************************************************************)
(* Floats                                                                  *)
(***************************************************************************)
Abs(n) == IF n < 0 THEN -n ELSE n

Sign(n) == IF n < 0 THEN -1 ELSE IF n = 0 THEN 0 ELSE 1

RECURSIVE Gcd(_, _)
Gcd(a, b) == IF b = 0 THEN a ELSE Gcd(b, a % b)

NaN == <<0, 0>>

Inf == <<1, 0>>

IsNaN(a) == a[1] = 0 /\ a[2] = 0

IsInf(a) == a[1] # 0 /\ a[2] = 0

IsFinite(a) == a[2] # 0

\* n/d in lowest terms with a positive denominator; x/0 as IEEE gives it
Frac(n, d) ==
    IF d = 0 THEN <<Sign(n), 0>>
    ELSE LET g == Gcd(Abs(n), Abs(d))
         IN  <<Sign(d) * (n \div g), Abs(d) \div g>>

Num(n) == <<n, 1>>

Zero == Num(0)

RAdd(a, b) ==
    IF IsNaN(a) \/ IsNaN(b) THEN NaN
    ELSE IF IsInf(a) /\ IsInf(b) THEN (IF a = b THEN a ELSE NaN)
    ELSE IF IsInf(a) THEN a
    ELSE IF IsInf(b) THEN b
    ELSE LET g == Gcd(a[2], b[2])
         IN  Frac(a[1] * (b[2] \div g) + b[1] * (a[2] \div g),
                  a[2] * (b[2] \div g))

RNeg(a) == <<-a[1], a[2]>>

RSub(a, b) == RAdd(a, RNeg(b))

RMul(a, b) ==
    IF IsNaN(a) \/ IsNaN(b) THEN NaN
    ELSE IF IsInf(a) \/ IsInf(b) THEN <<Sign(a[1]) * Sign(b[1]), 0>>
    ELSE LET g == Gcd(Abs(a[1]), b[2])
             h == Gcd(Abs(b[1]), a[2])
         IN  Frac((a[1] \div g) * (b[1] \div h), (a[2] \div h) * (b[2] \div g))

RDiv(a, b) ==
    IF IsNaN(a) \/ IsNaN(b) THEN NaN
    ELSE IF IsInf(a) /\ IsInf(b) THEN NaN
    ELSE IF IsInf(a) THEN <<Sign(a[1]) * (IF b[1] < 0 THEN -1 ELSE 1), 0>>
    ELSE IF IsInf(b) THEN Zero
    ELSE IF b[1] = 0 THEN <<Sign(a[1]), 0>>
    ELSE LET g == Gcd(Abs(a[1]), Abs(b[1]))
             h == Gcd(a[2], b[2])
         IN  Frac((a[1] \div g) * (b[2] \div h), (a[2] \div h) * (b[1] \div g))

RSquare(a) == RMul(a, a)

\* a < b on floats; any comparison with NaN is false
RLess(a, b) ==
    IF IsNaN(a) \/ IsNaN(b) THEN FALSE
    ELSE IF IsInf(a) \/ IsInf(b) THEN
        IF IsInf(a) /\ IsInf(b) THEN a[1] < b[1]
        ELSE IF IsInf(a) THEN a[1] < 0
        ELSE b[1] > 0
    ELSE LET g == Gcd(a[2], b[2])
         IN  a[1] * (b[2] \div g) < b[1] * (a[2] \div g)

RECURSIVE Pow2(_)
Pow2(n) == IF n = 0 THEN 1 ELSE 2 * Pow2(n - 1)

\* np.exp on an integer-valued float (base 2, see the header)
Exp(a) ==
    IF IsNaN(a) THEN NaN
    ELSE IF IsInf(a) THEN (IF a[1] > 0 THEN Inf ELSE Zero)
    ELSE IF a[1] >= 0 THEN <<Pow2(a[1] \div a[2]), 1>>
    ELSE <<1, Pow2((-a[1]) \div a[2])>>


(***************************************************************************)
(* Python containers                                                       *)
(***************************************************************************)
\* seq[i] with Python's 0-based index
At(seq, i) == seq[i + 1]

\* seq[start:]
SliceFrom(seq, start) ==
    [j \in 1..(IF Len(seq) > start THEN Len(seq) - start ELSE 0) |->
        seq[j + start]]

\* np.full((n,), v)
Full(n, v) == [j \in 1..(IF n > 0 THEN n ELSE 0) |-> v]

Range(seq) == {seq[j] : j \in 1..Len(seq)}

RECURSIVE SortedSeq(_)
\* the elements of a set of integers in increasing order
SortedSeq(S) ==
    IF S = {} THEN <<>>
    ELSE LET m == CHOOSE x \in S : \A y \in S : x <= y
         IN  <<m>> \o SortedSeq(S \ {m})

RECURSIVE SeqMax(_)
\* ndarray.max()
SeqMax(seq) ==
    IF Len(seq) = 1 THEN seq[1]
    ELSE LET m == SeqMax(Tail(seq))
         IN  IF seq[1] > m THEN seq[1] ELSE m

\* a dict is the sequence of its <<key, value>> items in insertion order
DictKeys(d) == [j \in 1..Len(d) |-> d[j][1]]

DictHas(d, key) == \E j \in 1..Len(d) : d[j][1] = key

DictGet(d, key) == d[CHOOSE j \in 1..Len(d) : d[j][1] = key][2]

\* d[key] = value: an existing key keeps its place
DictSet(d, key, value) ==
    IF DictHas(d, key)
    THEN [j \in 1..Len(d) |-> IF d[j][1] = key THEN <<key, value>> ELSE d[j]]
    ELSE Append(d, <<key, value>>)

(***************************************************************************)
(* DegAndLag                                                               *)
(***************************************************************************)
\* self.vini
vini == 1

RECURSIVE MetParams(_)
\* what the loop of get_params appends to parameters_to_estimate
MetParams(mets) ==
    IF mets = <<>> THEN <<>>
    ELSE <<mets[1] \o "_M0", mets[1] \o "_q">> \o MetParams(Tail(mets))

RECURSIVE MetBounds(_, _)
\* the bounds.update calls of the loop of get_params
MetBounds(b, mets) ==
    IF mets = <<>> THEN b
    ELSE MetBounds(
            DictSet(DictSet(b, mets[1] \o "_M0", <<Frac(1, 1000000), Num(50)>>),
                    mets[1] \o "_q", <<Num(-50), Num(50)>>),
            Tail(mets))

GetParams_names(mets) == <<"X_0", "mu", "t_lag">> \o MetParams(mets)

GetParams_bounds(mets, tv) ==
    MetBounds(<< <<"X_0", <<Frac(1, 1000), Num(10)>> >>,
                 <<"mu", <<Frac(1, 1000), Num(3)>> >>,
                 <<"t_lag", <<Zero, RMul(Frac(1, 2), Num(SeqMax(tv)))>> >> >>,
              mets)

GetParams_initial(names) == [j \in 1..Len(names) |-> <<names[j], Num(vini)>>]

\* np.nonzero(time_vector < t_lag): a 1-tuple holding the array of the
\* (0-based) indices of the time points below t_lag
Nonzero(tv, t_lag) ==
    << SortedSeq({j - 1 : j \in {i \in 1..Len(tv) : RLess(Num(tv[i]), t_lag)}}) >>

\* the positions of params_opti that the loop of simulate reads for column i
QIndex(i) == i * 2 + 1

M0Index(i) == i * 2 + 2

\* range(1, int(len(params_opti) / 2))
MetColumns(params_opti) == 1..((Len(params_opti) \div 2) - 1)

\* the shape of a op b for 1-D operands of lengths a and b; -1: no broadcast
Broadcast(a, b) ==
    IF a = b THEN a ELSE IF a = 1 THEN b ELSE IF b = 1 THEN a ELSE -1

\* element j (1-based) of a 1-D array of length len broadcast to a longer one
Bc(arr, j) == IF Len(arr) = 1 THEN arr[1] ELSE arr[j]

\* params_non_opti[idx]: a dict, a list or None cannot be indexed by a tuple
\* holding an array; an ndarray is indexed by the array of indices
DegLookup(deg, idx) ==
    IF deg.type # "ndarray" THEN [exc |-> "TypeError", k |-> <<>>]
    ELSE IF \E j \in 1..Len(idx[1]) : idx[1][j] >= Len(deg.data)
         THEN [exc |-> "IndexError", k |-> <<>>]
    ELSE [exc |-> "",
          k |-> [j \in 1..Len(idx[1]) |-> Num(At(deg.data, idx[1][j]))]]

\* lines 62: x_0 * np.exp(mu * (time_vector[len(idx) - 1:] - t_lag))
BiomassGrowth(x_0, mu, t_lag, tv, idx) ==
    LET ts == SliceFrom(tv, Len(idx) - 1)
    IN  [j \in 1..Len(ts) |->
            RMul(x_0, Exp(RMul(mu, RSub(Num(ts[j]), t_lag))))]

\* lines 59, 63: the biomass column
BiomassColumn(x_0, mu, t_lag, tv, idx) ==
    Full(Len(idx) - 1, x_0) \o BiomassGrowth(x_0, mu, t_lag, tv, idx)

\* lines 71-75 for one time point t and one degradation constant k
MetGrowth(q, m_0, x_0, mu, t_lag, k, t) ==
    RAdd(RMul(RMul(q, RDiv(x_0, RAdd(mu, k))),
              RSub(Exp(RMul(mu, RSub(t, t_lag))),
                   Exp(RMul(RNeg(k), RSub(t, t_lag))))),
         RMul(m_0, Exp(RMul(RNeg(k), t))))

\* lines 67-79: column i of the simulated matrix, or the exception raised
MetColumn(i, params_opti, tv, deg, idx) ==
    LET x_0 == At(params_opti, 0)
        mu == At(params_opti, 1)
        t_lag == At(params_opti, 2)
        q == At(params_opti, QIndex(i))
        m_0 == At(params_opti, M0Index(i))
        look == DegLookup(deg, idx)
        k == look.k
        n == Broadcast(Len(k), Len(tv))
        m_t_lag == Full(Len(idx) - 1, m_0)
        mult_by_time ==
            [j \in 1..n |->
                MetGrowth(q, m_0, x_0, mu, t_lag, Bc(k, j), Num(Bc(tv, j)))]
        col == m_t_lag \o mult_by_time
    IN  IF look.exc # "" THEN [exc |-> look.exc, col |-> <<>>]
        ELSE IF n = -1 THEN [exc |-> "ValueError", col |-> <<>>]
        ELSE IF Broadcast(Len(col), Len(tv)) # Len(tv)
             THEN [exc |-> "ValueError", col |-> <<>>]
        ELSE [exc |-> "", col |-> [j \in 1..Len(tv) |-> Bc(col, j)]]

\* DegAndLag.simulate.  data_matrix has one row per time point and
\* int(len(params_opti) / 2) columns, so np.empty_like leaves no cell unset.
Simulate(params_opti, tv, deg) ==
    LET x_0 == At(params_opti, 0)
        mu == At(params_opti, 1)
        t_lag == At(params_opti, 2)
        idx == Nonzero(tv, t_lag)
        col0 == BiomassColumn(x_0, mu, t_lag, tv, idx)
        cols == [i \in MetColumns(params_opti) |->
                    MetColumn(i, params_opti, tv, deg, idx)]
        bad == {i \in MetColumns(params_opti) : cols[i].exc # ""}
    IN  IF Len(col0) # Len(tv) THEN [exc |-> "ValueError", matrix |-> <<>>]
        ELSE IF bad # {}
             THEN [exc |-> cols[CHOOSE i \in bad : \A j \in bad : i <= j].exc,
                   matrix |-> <<>>]
        ELSE [exc |-> "",
              matrix |-> [r \in 1..Len(tv) |->
                            [c \in 1..(Len(params_opti) \div 2) |->
                                IF c = 1 THEN col0[r] ELSE cols[c - 1].col[r]]]]

(***************************************************************************)
(* Bounds and input sets                                                   *)
(***************************************************************************)
\* time points are drawn from 0..MaxTime
MaxTime == 2

\* at most MaxMet metabolite columns
MaxMet == 1

MetNames == <<"Glc", "Ace", "Lac">>

\* strictly increasing, non-empty time vectors
TimeVectors == {SortedSeq(S) : S \in (SUBSET (0..MaxTime)) \ {{}}}

MetaboliteLists == {SubSeq(MetNames, 1, m) : m \in 0..MaxMet}

\* parameter vectors <<X_0, mu, t_lag, (pair per metabolite)>> on a grid
\* inside the bounds of get_params, with t_lag up to beyond the last time
BaseParams ==
    {<<Num(x), Num(m), Num(l)>> : x \in {1, 2}, m \in {1, 2},
                                    l \in 0..(MaxTime + 1)}

RECURSIVE MetPairs(_)
MetPairs(m) ==
    IF m = 0 THEN {<<>>}
    ELSE {<<Num(a), Num(b)>> \o rest :
            a \in {1, 3}, b \in {1, 2}, rest \in MetPairs(m - 1)}

ParamVectors(m) == {b \o r : b \in BaseParams, r \in MetPairs(m)}

\* params_non_opti: the dict of get_params, a list, or an array holding one
\* degradation constant per time point
DegInputs(n) ==
    {[type |-> "dict", data |-> <<>>], [type |-> "list", data |-> <<>>]}
    \cup {[type |-> "ndarray", data |-> [j \in 1..n |-> k]] : k \in {0, 1}}

(***************************************************************************)
(* The kinetic model as a state machine                                    *)
(***************************************************************************)
IdleModel ==
    /\ metabolites = <<>>
    /\ time_vector = <<0>>
    /\ parameters_to_estimate = None
    /\ bounds = None
    /\ initial_values = None
    /\ sim_args = None
    /\ sim_ret = None

IdleSD ==
    /\ columns = None
    /\ name_vector = None
    /\ sd = None
    /\ sd_given = None

IdleCost ==
    /\ cost_args = None
    /\ cost_ret = None

IdleFit ==
    /\ params = None
    /\ iterations = 0
    /\ optimize_results = None
    /\ simulated_matrix = None
    /\ simulated_data = None
    /\ parameter_stats = None
    /\ matrices_ci = None
    /\ khi2_res = None
    /\ mc_draws = None
    /\ n_noise = 0
    /\ n_opt = 0

\* DegAndLag.__init__ on a data set, and the arguments simulate will get
InitModel ==
    /\ metabolites \in MetaboliteLists
    /\ time_vector \in TimeVectors
    /\ parameters_to_estimate = None
    /\ bounds = None
    /\ initial_values = None
    /\ \E p \in ParamVectors(Len(metabolites)),
          deg \in DegInputs(Len(time_vector)) :
            sim_args = [params_opti |-> p, params_non_opti |-> deg]
    /\ sim_ret = None
    /\ IdleSD /\ IdleCost /\ IdleFit
    /\ experimental_matrix = None
    /\ called = "__init__"
    /\ raised = ""

get_params ==
    /\ parameters_to_estimate = None
    /\ parameters_to_estimate' = GetParams_names(metabolites)
    /\ bounds' = GetParams_bounds(metabolites, time_vector)
    /\ initial_values' = GetParams_initial(GetParams_names(metabolites))
    /\ called' = "get_params"
    /\ raised' = ""
    /\ UNCHANGED <<metabolites, time_vector, sim_args, sim_ret, sd_vars,
                   cost_vars, fit_vars, experimental_matrix>>

simulate ==
    /\ sim_ret = None
    /\ sim_ret' = Simulate(sim_args.params_opti, time_vector,
                           sim_args.params_non_opti)
    /\ called' = "simulate"
    /\ raised' = sim_ret'.exc
    /\ UNCHANGED <<metabolites, time_vector, parameters_to_estimate,
                   bounds, initial_values, sim_args, sd_vars, cost_vars,
                   fit_vars, experimental_matrix>>

NextModel == get_params \/ simulate

SpecModel == InitModel /\ [][NextModel]_vars

\* rows of the last simulate call whose time is strictly below t_lag
PreLagRows ==
    {r \in 1..Len(time_vector) :
        RLess(Num(time_vector[r]), At(sim_args.params_opti, 2))}

\* C1: in the matrix simulate returns, every row with t < t_lag has biomass
\* X0 and every metabolite column at its initial concentration M0.
C1_PreLagRowsFlat ==
    (sim_ret # None /\ sim_ret.exc = "") =>
        \A r \in PreLagRows :
            /\ sim_ret.matrix[r][1] = At(sim_args.params_opti, 0)
            /\ \A i \in MetColumns(sim_args.params_opti) :
                  sim_ret.matrix[r][i + 1] = At(sim_args.params_opti, M0Index(i))

\* C2: for metabolite i (column i), the position simulate reads as q is the
\* one get_params names and bounds <met>_q, and the position it reads as m_0
\* is the one named and bounded <met>_M0.
C2_ParameterOrderMatches ==
    parameters_to_estimate # None =>
        \A i \in 1..Len(metabolites) :
            /\ At(parameters_to_estimate, QIndex(i)) = metabolites[i] \o "_q"
            /\ At(bounds, QIndex(i))[1] = metabolites[i] \o "_q"
            /\ At(parameters_to_estimate, M0Index(i)) = metabolites[i] \o "_M0"
            /\ At(bounds, M0Index(i))[1] = metabolites[i] \o "_M0"

(***************************************************************************)
(* PhysioFitter: the sd matrix                                             *)
(*                                                                         *)
(* Python values: [type |-> "NoneType"], [type |-> "float", val |-> f]     *)
(* (an int or a float), [type |-> "str", val |-> s], [type |-> "list",     *)
(* data |-> elements], [type |-> "dict", items |-> <<key, value>> pairs]   *)
(* and [type |-> "ndarray", dtype, shape, data] with data in row-major     *)
(* order.  A matrix (experimental_matrix, simulated_matrix) is a sequence  *)
(* of rows.                                                                *)
(***************************************************************************)
PyNone == [type |-> "NoneType"]

PyFloat(f) == [type |-> "float", val |-> f]

PyStr(str) == [type |-> "str", val |-> str]

PyList(elems) == [type |-> "list", data |-> elems]

PyDict(items) == [type |-> "dict", items |-> items]

NdArray(dtype, shape, data) ==
    [type |-> "ndarray", dtype |-> dtype, shape |-> shape, data |-> data]

\* ndarray.shape of a matrix given as a sequence of rows
Shape(m) == <<Len(m), Len(m[1])>>

RECURSIVE Product(_)
\* ndarray.size from the shape
Product(shape) ==
    IF shape = <<>> THEN 1 ELSE shape[1] * Product(Tail(shape))

RECURSIVE Flatten(_)
Flatten(rows) ==
    IF rows = <<>> THEN <<>> ELSE rows[1] \o Flatten(Tail(rows))

RECURSIVE Repeat(_, _)
\* data repeated n times
Repeat(data, n) == IF n <= 0 THEN <<>> ELSE data \o Repeat(data, n - 1)

\* float("...") on the strings the inputs hold; NaN stands for ValueError
ParseFloat(str) ==
    IF str = "0.5" THEN Frac(1, 2)
    ELSE IF str = "0.2" THEN Frac(1, 5)
    ELSE NaN

AllOfType(elems, type) == \A j \in 1..Len(elems) : elems[j].type = type

\* np.array(x) for a list or an ndarray
NpArray(x) ==
    IF x.type = "ndarray" THEN [exc |-> "", arr |-> x]
    ELSE LET e == x.data
             n == Len(e)
         IN  IF AllOfType(e, "float")
             THEN [exc |-> "",
                   arr |-> NdArray("float64", <<n>>, [j \in 1..n |-> e[j].val])]
             ELSE IF AllOfType(e, "str")
             THEN [exc |-> "",
                   arr |-> NdArray("str", <<n>>, [j \in 1..n |-> e[j].val])]
             ELSE IF /\ AllOfType(e, "list")
                     /\ \A j \in 1..n : Len(e[j].data) = Len(e[1].data)
                     /\ \A j \in 1..n : AllOfType(e[j].data, "float")
             THEN [exc |-> "",
                   arr |-> NdArray("float64", <<n, Len(e[1].data)>>,
                               Flatten([j \in 1..n |->
                                   [i \in 1..Len(e[j].data) |->
                                       e[j].data[i].val]]))]
             ELSE [exc |-> "ValueError: inhomogeneous shape", arr |-> x]

\* np.tile(arr, (rows, 1)): a 1-D array is taken as one row
Tile(arr, rows) ==
    LET shape2 == IF Len(arr.shape) = 1 THEN <<1, arr.shape[1]>> ELSE arr.shape
    IN  NdArray(arr.dtype, <<shape2[1] * rows, shape2[2]>>,
                Repeat(arr.data, rows))

\* PhysioFitter._build_sd_matrix
BuildSdMatrix(s, exp) ==
    IF s.type = "ndarray" THEN
        IF Product(s.shape) # Len(exp[1])
        THEN [exc |-> "ValueError: sd vector not of right size", sd |-> s]
        ELSE [exc |-> "", sd |-> Tile(s, Len(exp))]
    ELSE IF s.type = "float" THEN
        [exc |-> "",
         sd |-> NdArray("float64", Shape(exp),
                        Full(Product(Shape(exp)), s.val))]
    ELSE [exc |-> "RuntimeError: Unknown error", sd |-> s]

\* line 138: len(self.sd[key]) if it is no float or int, else 1
SdLength(value) == IF value.type = "float" THEN 1 ELSE Len(value.data)

\* lines 129-134: the first key the checks reject
FirstExtraKey(items, names) ==
    LET bad == {j \in 1..Len(items) : items[j][1] \notin Range(names)}
    IN  IF bad = {} THEN ""
        ELSE items[CHOOSE j \in bad : \A i \in bad : j <= i][1]

\* a report that names the first name of the vector, missing or not
FirstMissingName_first(items, names) == names[1]

FirstMissingName(items, names) ==
    LET bad == {j \in 1..Len(names) : ~DictHas(items, names[j])}
    IN  IF bad = {} THEN ""
        ELSE names[CHOOSE j \in bad : \A i \in bad : j <= i]

ExtraKeyError(key) == "KeyError: The key " \o key \o " is not part of the data headers"

MissingKeyError(name) == "KeyError: The key " \o name \o " is missing from the sds dict"

\* the values taken in the dict's own order: list(self.sd.values())
SdColumns_dictOrder(items, names) == [j \in 1..Len(items) |-> items[j][2]]

\* lines 148, 150: self.sd[name] for name in self.model.name_vector
SdColumns(items, names) == [j \in 1..Len(names) |-> DictGet(items, names[j])]

\* PhysioFitter._sd_dict_to_matrix
SdDictToMatrix(s, names) ==
    LET items == s.items
        sd_lengths == [j \in 1..Len(items) |-> SdLength(items[j][2])]
        columns_ == SdColumns(items, names)
    IN  IF \E j \in 1..Len(items) : items[j][1] \notin Range(names)
        THEN [exc |-> ExtraKeyError(FirstExtraKey(items, names)), sd |-> s]
        ELSE IF \E j \in 1..Len(names) : ~DictHas(items, names[j])
        THEN [exc |-> MissingKeyError(FirstMissingName(items, names)), sd |-> s]
        ELSE IF \E j \in 1..Len(items) : sd_lengths[j] # sd_lengths[1]
        THEN [exc |-> "ValueError: All sd vectors must have the same length",
              sd |-> s]
        ELSE IF sd_lengths[1] = 1
        THEN [exc |-> "", sd |-> PyList(columns_)]
        ELSE [exc |-> "",
              sd |-> NdArray("float64", <<sd_lengths[1], Len(names)>>,
                        Flatten([i \in 1..sd_lengths[1] |->
                            [j \in 1..Len(names) |->
                                columns_[j].data[i].val]]))]

RECURSIVE DefaultSdItems(_, _)
\* lines 170-171: self.sd.update({col: 0.5}) for col in data.columns[2:]
DefaultSdItems(items, cols) ==
    IF cols = <<>> THEN items
    ELSE DefaultSdItems(DictSet(items, cols[1], PyFloat(Frac(1, 2))), Tail(cols))

\* lines 166-173: the default dict
DefaultSd(cols) ==
    PyDict(DefaultSdItems(<< <<"X", PyFloat(Frac(1, 5))>> >>, SliceFrom(cols, 2)))

\* lines 183-213, from np.array(self.sd) on
CoerceSd(s, exp) ==
    LET conv == NpArray(s)
        a == conv.arr
    IN  IF conv.exc # "" THEN [exc |-> conv.exc, sd |-> s]
        ELSE IF a.dtype # "float64" THEN
            IF \E j \in 1..Len(a.data) : IsNaN(ParseFloat(a.data[j]))
            THEN [exc |-> "ValueError: not numeric", sd |-> a]
            ELSE [exc |-> "",
                  sd |-> NdArray("float64", a.shape,
                            [j \in 1..Len(a.data) |-> ParseFloat(a.data[j])])]
        ELSE IF a.shape # Shape(exp) THEN BuildSdMatrix(a, exp)
        ELSE [exc |-> "", sd |-> a]

\* PhysioFitter.initialize_sd_matrix: self.sd afterwards and what it raised
InitializeSdMatrix(s0, names, cols, exp) ==
    LET s1 == IF s0.type = "NoneType" THEN DefaultSd(cols) ELSE s0
        d == IF s1.type = "dict" THEN SdDictToMatrix(s1, names)
             ELSE [exc |-> "", sd |-> s1]
        s2 == d.sd
    IN  IF d.exc # "" THEN d
        ELSE IF s2.type = "float" THEN BuildSdMatrix(s2, exp)
        ELSE IF s2.type \notin {"ndarray", "list"}
        THEN [exc |-> "TypeError: Cannot coerce SD to array", sd |-> s2]
        ELSE CoerceSd(s2, exp)

(***************************************************************************)
(* The sd matrix builder as a state machine                                *)
(***************************************************************************)
\* the experimental matrix has 1..MaxRows rows
MaxRows == 2

\* the name vector: the biomass name, then the metabolites
NameVectors == {<<b>> \o m : b \in {"X", "Biomass"}, m \in MetaboliteLists}

\* an experimental matrix of the given shape with every cell measured
FullMatrix(rows, cols, v) == [r \in 1..rows |-> [c \in 1..cols |-> v]]

SdFills == {Frac(1, 2), Zero, Num(-1)}

\* the values of an sd dict: a scalar, or a list of one or of `rows` scalars
SdDictValues(rows) ==
    {PyFloat(Frac(1, 5)), PyFloat(Frac(1, 2))}
    \cup {PyList(Full(n, PyFloat(Frac(1, 2)))) : n \in {1, rows}}

\* the sequences of distinct keys over the names and a foreign key
KeySeqs(names) ==
    LET U == Range(names) \cup {"Zzz"}
    IN  {k \in UNION {[1..n -> U] : n \in 0..Cardinality(U)} :
            \A i, j \in 1..Len(k) : i # j => k[i] # k[j]}

SdDicts(names, rows) ==
    {PyDict([j \in 1..Len(k) |-> <<k[j], v[j]>>]) :
        <<k, v>> \in UNION {{<<k, v>> : v \in [1..Len(k) -> SdDictValues(rows)]} :
                            k \in KeySeqs(names)}}

\* lists and arrays of one fill value: 1-D of 0..cols+1 entries, 2-D of up
\* to rows+1 by cols+1
SdLists(rows, cols) ==
    {PyList(Full(n, PyFloat(f))) : n \in 0..(cols + 1), f \in SdFills}
    \cup {PyList(Full(a, PyList(Full(b, PyFloat(f))))) :
            a \in 1..(rows + 1), b \in 1..(cols + 1), f \in SdFills}
    \cup {PyList(Full(n, PyStr(str))) : n \in 1..(cols + 1), str \in {"0.5", "abc"}}

SdArrays(rows, cols) ==
    {NdArray("float64", <<n>>, Full(n, f)) : n \in 0..(cols + 1), f \in SdFills}
    \cup {NdArray("float64", <<a, b>>, Full(a * b, f)) :
            a \in 1..(rows + 1), b \in 1..(cols + 1), f \in SdFills}

SdInputs(names, rows) ==
    {PyNone, PyStr("abc")}
    \cup {PyFloat(f) : f \in SdFills \cup {Frac(1, 5)}}
    \cup SdDicts(names, rows)
    \cup SdLists(rows, Len(names))
    \cup SdArrays(rows, Len(names))

\* PhysioFitter.__init__ with an sd, and the data handed to the engine
InitSD ==
    /\ name_vector \in NameVectors
    /\ columns = <<"time">> \o name_vector
    /\ \E rows \in 1..MaxRows :
          /\ experimental_matrix = FullMatrix(rows, Len(name_vector), Num(1))
          /\ sd \in SdInputs(name_vector, rows)
    /\ sd_given = sd
    /\ IdleModel /\ IdleCost /\ IdleFit
    /\ called = "__init__"
    /\ raised = ""

initialize_sd_matrix ==
    /\ called = "__init__"
    /\ LET ret == InitializeSdMatrix(sd, name_vector, columns, experimental_matrix)
       IN  /\ sd' = ret.sd
           /\ raised' = ret.exc
    /\ called' = "initialize_sd_matrix"
    /\ UNCHANGED <<model_vars, columns, name_vector, sd_given, cost_vars,
                   fit_vars, experimental_matrix>>

NextSD == initialize_sd_matrix

SpecSD == InitSD /\ [][NextSD]_vars

SdBuilt == called = "initialize_sd_matrix" /\ raised = ""

\* C3: whatever the sd given, initialize_sd_matrix raises or leaves self.sd a
\* matrix shaped like the experimental matrix with strictly positive entries.
C3_SdMatrixShapedAndPositive ==
    SdBuilt =>
        /\ sd.type = "ndarray"
        /\ sd.shape = Shape(experimental_matrix)
        /\ \A j \in 1..Len(sd.data) : RLess(Zero, sd.data[j])

\* the matrix with 0.2 in the first column and 0.5 in every other one
DefaultMatrix(exp) ==
    NdArray("float64", Shape(exp),
            Flatten([r \in 1..Len(exp) |->
                [c \in 1..Len(exp[1]) |->
                    IF c = 1 THEN Frac(1, 5) ELSE Frac(1, 2)]]))

\* C4: with sd = None, whatever the names, initialize_sd_matrix succeeds and
\* self.sd has 0.2 in the biomass column and 0.5 in every other column.
C4_DefaultSdMatrix ==
    (called = "initialize_sd_matrix" /\ sd_given = PyNone) =>
        /\ raised = ""
        /\ sd = DefaultMatrix(experimental_matrix)

GivenKeys == {sd_given.items[j][1] : j \in 1..Len(sd_given.items)}

\* C5: an sd dict whose keys are not exactly the names makes the builder
\* raise a KeyError naming a key that is foreign or a name that is missing,
\* and self.sd is left the dict: no matrix is produced.
C5_KeyMismatchRaises ==
    (/\ called = "initialize_sd_matrix"
     /\ sd_given.type = "dict"
     /\ GivenKeys # Range(name_vector)) =>
        /\ raised \in {ExtraKeyError(k) : k \in GivenKeys \ Range(name_vector)}
                      \cup {MissingKeyError(n) : n \in Range(name_vector) \ GivenKeys}
        /\ sd = sd_given

\* a dict lacking one name (and holding no foreign key) was rejected
C5_Witness ==
    /\ called = "initialize_sd_matrix"
    /\ sd_given.type = "dict"
    /\ GivenKeys \subseteq Range(name_vector)
    /\ Cardinality(Range(name_vector) \ GivenKeys) = 1
    /\ Len(name_vector) = 2
    /\ raised = MissingKeyError(CHOOSE n \in Range(name_vector) : n \notin GivenKeys)

OneScalarPerName ==
    /\ sd_given.type = "dict"
    /\ GivenKeys = Range(name_vector)
    /\ \A j \in 1..Len(sd_given.items) : sd_given.items[j][2].type = "float"

\* C6: an sd dict with exactly one scalar per name, in any key order, gives
\* the matrix whose every row lists the scalars in name-vector order.
C6_ScalarDictRows ==
    (called = "initialize_sd_matrix" /\ OneScalarPerName) =>
        /\ raised = ""
        /\ sd = NdArray("float64", Shape(experimental_matrix),
                    Flatten([r \in 1..Len(experimental_matrix) |->
                        [c \in 1..Len(name_vector) |->
                            DictGet(sd_given.items, name_vector[c]).val]]))

\* a dict keyed in another order than the names, with different scalars
C6_Witness ==
    /\ called = "initialize_sd_matrix"
    /\ OneScalarPerName
    /\ Len(name_vector) = 2
    /\ Len(experimental_matrix) = 2
    /\ sd_given.items[1][1] = name_vector[2]
    /\ sd_given.items[1][2] # sd_given.items[2][2]
    /\ sd.type = "ndarray"

(***************************************************************************)
(* PhysioFitter: the cost                                                  *)
(***************************************************************************)
\* np.sum: a NaN term makes the sum NaN
NanSum_plainSum(terms) ==
    LET RECURSIVE Sum(_)
        Sum(t) == IF t = <<>> THEN Zero ELSE RAdd(t[1], Sum(Tail(t)))
    IN  Sum(terms)

\* np.nansum: the sum with every NaN term taken as zero
NanSum(terms) ==
    LET RECURSIVE Sum(_)
        Sum(t) ==
            IF t = <<>> THEN Zero
            ELSE RAdd(IF IsNaN(t[1]) THEN Zero ELSE t[1], Sum(Tail(t)))
    IN  Sum(terms)

\* line 299: np.square((simulated_matrix - exp_data_matrix) / sd_matrix)
CostVal(sim, exp, sd_matrix) ==
    [r \in 1..Len(exp) |->
        [c \in 1..Len(exp[r]) |->
            RSquare(RDiv(RSub(sim[r][c], exp[r][c]), sd_matrix[r][c]))]]

\* lines 299-301 of _calculate_cost, on the matrix func returned
Residuum(sim, exp, sd_matrix) == NanSum(Flatten(CostVal(sim, exp, sd_matrix)))

(***************************************************************************)
(* The cost as a state machine: func is given by the matrix it returns     *)
(***************************************************************************)
\* one cell of the three matrices: simulated, experimental, sd
CostCells ==
    {[sim |-> Num(1), exp |-> Num(1), sd |-> Frac(1, 2)],
     [sim |-> Num(2), exp |-> Num(1), sd |-> Frac(1, 2)],
     [sim |-> Num(1), exp |-> Num(2), sd |-> Num(2)],
     [sim |-> Num(3), exp |-> Num(1), sd |-> Frac(1, 5)],
     [sim |-> Num(2), exp |-> NaN, sd |-> Num(2)]}

CostShapes == {<<rows, cols>> : rows \in 1..MaxRows, cols \in {1, 2}}

CostInputs ==
    UNION {{[func_ret |-> [r \in 1..sh[1] |-> [c \in 1..sh[2] |-> m[r][c].sim]],
             exp_data_matrix |-> [r \in 1..sh[1] |-> [c \in 1..sh[2] |-> m[r][c].exp]],
             sd_matrix |-> [r \in 1..sh[1] |-> [c \in 1..sh[2] |-> m[r][c].sd]],
             marked |-> <<>>] :
                m \in [1..sh[1] -> [1..sh[2] -> CostCells]]} : sh \in CostShapes}

InitCost ==
    /\ cost_args \in CostInputs
    /\ cost_ret = None
    /\ experimental_matrix = None
    /\ IdleModel /\ IdleSD /\ IdleFit
    /\ called = "__init__"
    /\ raised = ""

calculate_cost ==
    /\ cost_ret = None
    /\ cost_ret' = Residuum(cost_args.func_ret, cost_args.exp_data_matrix,
                            cost_args.sd_matrix)
    /\ called' = "_calculate_cost"
    /\ raised' = ""
    /\ UNCHANGED <<model_vars, sd_vars, fit_vars, cost_args,
                   experimental_matrix>>

\* the same call again with one measured cell of the data marked missing
calculate_cost_cell_missing ==
    /\ cost_ret # None
    /\ cost_args.marked = <<>>
    /\ \E r \in 1..Len(cost_args.exp_data_matrix),
          c \in 1..Len(cost_args.exp_data_matrix[1]) :
            /\ ~IsNaN(cost_args.exp_data_matrix[r][c])
            /\ cost_args' =
                  [cost_args EXCEPT !.exp_data_matrix[r][c] = NaN,
                                    !.marked = <<r, c>>]
    /\ cost_ret' = Residuum(cost_args'.func_ret, cost_args'.exp_data_matrix,
                            cost_args'.sd_matrix)
    /\ called' = "_calculate_cost"
    /\ raised' = ""
    /\ UNCHANGED <<model_vars, sd_vars, fit_vars, experimental_matrix>>

NextCost == calculate_cost \/ calculate_cost_cell_missing

SpecCost == InitCost /\ [][NextCost]_vars

\* ((simulated - experimental) / sd)^2 of one cell
Contribution(a, r, c) ==
    RSquare(RDiv(RSub(a.func_ret[r][c], a.exp_data_matrix[r][c]),
                 a.sd_matrix[r][c]))

RECURSIVE SumOver(_, _)
\* the sum of the contributions of a set of cells
SumOver(a, cells) ==
    IF cells = {} THEN Zero
    ELSE LET x == CHOOSE y \in cells : TRUE
         IN  RAdd(Contribution(a, x[1], x[2]), SumOver(a, cells \ {x}))

MeasuredCells(a) ==
    {<<r, c>> \in (1..Len(a.exp_data_matrix)) \X (1..Len(a.exp_data_matrix[1])) :
        ~IsNaN(a.exp_data_matrix[r][c])}

\* C7: the cost is the sum of ((sim - exp) / sd)^2 over exactly the measured
\* cells; it is 0 when the simulated matrix equals the data; and marking one
\* measured cell missing lowers it by exactly that cell's contribution.
C7_CostOverMeasuredCells ==
    /\ [](cost_ret # None =>
            /\ cost_ret = SumOver(cost_args, MeasuredCells(cost_args))
            /\ (cost_args.func_ret = cost_args.exp_data_matrix => cost_ret = Zero))
    /\ [][(cost_ret # None /\ cost_args'.marked # <<>>) =>
            cost_ret' = RSub(cost_ret,
                             Contribution(cost_args, cost_args'.marked[1],
                                          cost_args'.marked[2]))]_vars

\* a cell with a non-zero contribution was marked missing beside another
\* measured cell, and another cell was missing from the start
C7_Witness ==
    /\ cost_ret # None
    /\ cost_args.marked # <<>>
    /\ ~(cost_ret = Zero)
    /\ Cardinality(MeasuredCells(cost_args)) + 2
           <= Len(cost_args.exp_data_matrix) * Len(cost_args.exp_data_matrix[1])
    /\ cost_args.func_ret[cost_args.marked[1]][cost_args.marked[2]] = Num(3)

(***************************************************************************)
(* PhysioFitter: optimization                                              *)
(*                                                                         *)
(* scipy's optimizers search the box of the bounds; here they search its   *)
(* integer points.  L-BFGS-B is a descent from x0: it moves to the         *)
(* neighbouring point of least cost while that lowers the cost.            *)
(* differential_evolution with polish returns a point of least cost.       *)
(***************************************************************************)
Floor(a) == a[1] \div a[2]

Ceil(a) == -((-a[1]) \div a[2])

\* the search reaches no coordinate above GridMax
GridMax == 3

\* the integer points of the box of a bounds dict
Box(bnds) ==
    LET top(j) == IF Floor(bnds[j][2][2]) > GridMax THEN GridMax
                  ELSE Floor(bnds[j][2][2])
        side(j) == Ceil(bnds[j][2][1])..top(j)
    IN  {x \in [1..Len(bnds) -> UNION {side(j) : j \in 1..Len(bnds)}] :
            \A j \in 1..Len(bnds) : x[j] \in side(j)}

\* whether a point lies in the box
InBox(y, bnds) ==
    \A j \in 1..Len(y) :
        /\ ~RLess(y[j], bnds[j][2][1])
        /\ ~RLess(bnds[j][2][2], y[j])
        /\ ~RLess(Num(GridMax), y[j])

AsFloats(x) == [j \in 1..Len(x) |-> Num(x[j])]

\* PhysioFitter._calculate_cost with func = DegAndLag.simulate
CalculateCost(x, tv, deg, exp, sd_matrix) ==
    Residuum(Simulate(x, tv, deg).matrix, exp, sd_matrix)

\* the neighbours of x in the box, in the order they are tried
Moves(x, bnds) ==
    LET cand == [m \in 1..(2 * Len(x)) |->
                    [x EXCEPT ![(m + 1) \div 2] =
                        Num(@[1] + (IF m % 2 = 1 THEN -1 ELSE 1))]]
    IN  SelectSeq(cand, LAMBDA y : InBox(y, bnds))

\* the cost of every point of a sequence of points
Costs(pts, tv, deg, exp, sd_matrix) ==
    [i \in 1..Len(pts) |-> CalculateCost(pts[i], tv, deg, exp, sd_matrix)]

\* the index of the first of the smallest costs
ArgMin(cost) ==
    CHOOSE i \in 1..Len(cost) :
        /\ \A j \in 1..Len(cost) : ~RLess(cost[j], cost[i])
        /\ \A j \in 1..(i - 1) : RLess(cost[i], cost[j])

\* x, or the cheapest of the neighbours mv when it costs less than x
PickStep(x, mv, cost) ==
    IF mv # <<>> /\ RLess(cost[ArgMin(Tail(cost)) + 1], cost[1])
    THEN mv[ArgMin(Tail(cost))]
    ELSE x

\* one step of the descent
DescendStep(x, tv, deg, exp, sd_matrix, bnds) ==
    PickStep(x, Moves(x, bnds),
             Costs(<<x>> \o Moves(x, bnds), tv, deg, exp, sd_matrix))

RECURSIVE Descend(_, _, _, _, _, _)
\* minimize(..., x0, method="L-BFGS-B", bounds): the point the descent ends at
Descend(x, tv, deg, exp, sd_matrix, bnds) ==
    IF DescendStep(x, tv, deg, exp, sd_matrix, bnds) = x THEN x
    ELSE Descend(DescendStep(x, tv, deg, exp, sd_matrix, bnds),
                 tv, deg, exp, sd_matrix, bnds)

\* what OptimizeResult holds of a point: x and fun
OptimizeResult(x, tv, deg, exp, sd_matrix) ==
    [x |-> x, fun |-> CalculateCost(x, tv, deg, exp, sd_matrix)]

\* differential_evolution(..., polish=True): the points it can return
GlobalMinima(tv, deg, exp, sd_matrix, bnds) ==
    LET pts == {AsFloats(x) : x \in Box(bnds)}
        cost == [x \in pts |-> CalculateCost(x, tv, deg, exp, sd_matrix)]
    IN  {x \in pts : \A y \in pts : ~RLess(cost[y], cost[x])}

\* the rows of an ndarray of two dimensions
Rows(arr) ==
    [r \in 1..arr.shape[1] |->
        [c \in 1..arr.shape[2] |-> arr.data[(r - 1) * arr.shape[2] + c]]]

\* lines 279-280: the simulated matrix with the unmeasured cells masked
NanMask(m, exp) ==
    [r \in 1..Len(m) |->
        [c \in 1..Len(m[r]) |-> IF IsNaN(exp[r][c]) THEN NaN ELSE m[r][c]]]

(***************************************************************************)
(* PhysioFitter: Monte-Carlo analysis and khi2 test                        *)
(***************************************************************************)
RECURSIVE Insert(_, _)
Insert(v, sorted) ==
    IF sorted = <<>> THEN <<v>>
    ELSE IF RLess(sorted[1], v) THEN <<sorted[1]>> \o Insert(v, Tail(sorted))
    ELSE <<v>> \o sorted

RECURSIVE Sorted(_)
\* the values in increasing order
Sorted(vals) == IF vals = <<>> THEN <<>> ELSE Insert(vals[1], Sorted(Tail(vals)))

RECURSIVE Total(_)
Total(vals) == IF vals = <<>> THEN Zero ELSE RAdd(vals[1], Total(Tail(vals)))

\* np.mean
Mean(vals) == RDiv(Total(vals), Num(Len(vals)))

\* np.std, squared
Variance(vals) ==
    Mean([i \in 1..Len(vals) |-> RSquare(RSub(vals[i], Mean(vals)))])

\* np.percentile(vals, 100 * qn / qd): linear interpolation between the two
\* nearest ranks
Percentile(vals, qn, qd) ==
    LET a == Sorted(vals)
        h == (Len(a) - 1) * qn
        lo == h \div qd
    IN  IF lo + 2 > Len(a) THEN a[lo + 1]
        ELSE RAdd(a[lo + 1],
                  RMul(Frac(h - lo * qd, qd), RSub(a[lo + 2], a[lo + 1])))

\* np.median
Median(vals) == Percentile(vals, 1, 2)

\* the values of parameter j over the list of optimized vectors
Column(opt_params_list, j) ==
    [i \in 1..Len(opt_params_list) |-> opt_params_list[i][j]]

\* lines 420-434: what _compute_parameter_stats adds to parameter_stats
ComputeParameterStats(opt_params_list) ==
    LET n == Len(opt_params_list[1])
        col(j) == Column(opt_params_list, j)
    IN  ("mean" :> [j \in 1..n |-> Mean(col(j))])
        @@ ("sd" :> [j \in 1..n |-> Variance(col(j))])
        @@ ("median" :> [j \in 1..n |-> Median(col(j))])
        @@ ("CI_2.5" :> [j \in 1..n |-> Percentile(col(j), 1, 40)])
        @@ ("CI_97.5" :> [j \in 1..n |-> Percentile(col(j), 39, 40)])

\* lines 382-386: np.percentile(matrices, q, axis=0)
MatricesCI(matrices) ==
    LET cell(r, c) == [i \in 1..Len(matrices) |-> matrices[i][r][c]]
        pct(qn, qd) ==
            [r \in 1..Len(matrices[1]) |->
                [c \in 1..Len(matrices[1][1]) |-> Percentile(cell(r, c), qn, qd)]]
    IN  [lower_ci |-> pct(1, 40), higher_ci |-> pct(39, 40)]

\* _apply_noise: the simulated matrix plus noise of scale sd; the draws
\* taken here move at most one cell, of the first or the last row, by one sd
\* up or down
NoisyMatrices(sim, sd_matrix) ==
    {sim} \cup
    {[sim EXCEPT ![r][c] = RAdd(@, RMul(Num(z), sd_matrix[r][c]))] :
        r \in {1, Len(sim)}, c \in 1..Len(sim[1]), z \in {-1, 1}}

\* the optimization of one pass of the loop (lines 365-368): its seed is
\* opt_res.x, the result of the pass before
Reoptimize(opt_res_x, new_matrix, tv, deg, sd_matrix, bnds) ==
    Descend(opt_res_x, tv, deg, new_matrix, sd_matrix, bnds)

\* lines 371-378: what a pass appends to matrices and to opt_params_list
McPass(x, tv, deg) == [x |-> x, matrix |-> Simulate(x, tv, deg).matrix]

RECURSIVE McLoop(_, _, _, _, _, _)
RECURSIVE McRest(_, _, _, _, _, _)
\* lines 361-378: the optimized vector and the simulated matrix of every
\* pass, for the noisy matrices drawn
McLoop(opt_res_x, draws, tv, deg, sd_matrix, bnds) ==
    IF draws = <<>> THEN <<>>
    ELSE McRest(Reoptimize(opt_res_x, draws[1], tv, deg, sd_matrix, bnds),
                draws, tv, deg, sd_matrix, bnds)

\* the pass that ended at x, and the passes after it
McRest(x, draws, tv, deg, sd_matrix, bnds) ==
    <<McPass(x, tv, deg)>> \o McLoop(x, Tail(draws), tv, deg, sd_matrix, bnds)

\* lines 380-389 with no pass made: numpy's statistics of an empty array are
\* NaN
EmptyAggregate ==
    [stats |-> ("mean" :> NaN) @@ ("sd" :> NaN) @@ ("median" :> NaN)
               @@ ("CI_2.5" :> <<NaN>>) @@ ("CI_97.5" :> <<NaN>>),
     ci |-> [lower_ci |-> NaN, higher_ci |-> NaN]]

\* lines 380-389: the parameter statistics and confidence bands of the passes
Aggregate(passes) ==
    IF passes = <<>> THEN EmptyAggregate
    ELSE [stats |-> ComputeParameterStats([i \in 1..Len(passes) |-> passes[i].x]),
          ci |-> MatricesCI([i \in 1..Len(passes) |-> passes[i].matrix])]

\* the parameter statistics and confidence bands of a run on given draws
McAggregate(opt_res_x, draws, tv, deg, sd_matrix, bnds) ==
    Aggregate(McLoop(opt_res_x, draws, tv, deg, sd_matrix, bnds))

MonteCarloPrecondition_silent(opt_res) == ""

\* lines 343-348: what monte_carlo_analysis raises on entry
MonteCarloPrecondition(opt_res) ==
    IF opt_res = None
    THEN "RuntimeError: Running Monte Carlo simulation without having run the optimization is impossible"
    ELSE ""

\* scipy.stats.chi2.cdf(cost, dof): NaN for dof <= 0, else the value of the
\* distribution function, kept as its arguments
Chi2Cdf(cost, dof) ==
    IF dof <= 0 THEN [nan |-> TRUE] ELSE [nan |-> FALSE, x |-> cost, df |-> dof]

\* np.count_nonzero(~np.isnan(self.experimental_matrix))
NumberMeasurements(exp) ==
    Cardinality({<<r, c>> \in (1..Len(exp)) \X (1..Len(exp[1])) :
                    ~IsNaN(exp[r][c])})

\* lines 440-457: the dict khi2_test stores
Khi2Res(opt_x, prms, tv, deg, exp, sd_matrix) ==
    LET number_measurements == NumberMeasurements(exp)
        number_params == Len(prms)
        dof == number_measurements - number_params
        cost == CalculateCost(opt_x, tv, deg, exp, sd_matrix)
    IN  [khi2_value |-> cost,
         number_of_measurements |-> number_measurements,
         number_of_params |-> number_params,
         Degrees_of_freedom |-> dof,
         p_val |-> Chi2Cdf(cost, dof)]

(***************************************************************************)
(* The fitting engine as a state machine: a biomass-only data set sampled  *)
(* at FitTimes, fitted with DegAndLag                                      *)
(***************************************************************************)
\* iterations is drawn from 0..MaxIter
MaxIter == 2

FitTimes == <<0, 1, 2, 3>>

\* self.deg_vector: the model's fixed parameters
FitDeg == [type |-> "dict", data |-> <<>>]

\* the parameter vectors the data sets are generated from
TrueParams == {<<Num(1), Num(1), Num(0)>>, <<Num(1), Num(2), Num(1)>>,
               <<Num(3), Num(1), Num(0)>>}

\* the data sets: a simulated curve, its first cell measured or not
FitData ==
    {[r \in 1..Len(FitTimes) |->
        [c \in 1..1 |-> IF r \in K THEN NaN
                        ELSE Simulate(p, FitTimes, FitDeg).matrix[r][c]]] :
        p \in TrueParams,
        K \in SUBSET {1}}

\* PhysioFitter.__init__, the data and the model's parameters handed to the
\* engine, and initialize_sd_matrix
InitFit ==
    /\ metabolites = <<>>
    /\ time_vector = FitTimes
    /\ name_vector = <<"X">>
    /\ columns = <<"time", "X">>
    /\ parameters_to_estimate = GetParams_names(metabolites)
    /\ bounds = GetParams_bounds(metabolites, time_vector)
    /\ initial_values = GetParams_initial(parameters_to_estimate)
    /\ params = [j \in 1..Len(initial_values) |-> initial_values[j][2]]
    /\ sim_args = None
    /\ sim_ret = None
    /\ experimental_matrix \in FitData
    /\ sd_given \in {PyFloat(Num(1)), PyFloat(Num(4))}
    /\ sd = InitializeSdMatrix(sd_given, name_vector, columns,
                               experimental_matrix).sd
    /\ iterations \in 0..MaxIter
    /\ optimize_results = None
    /\ simulated_matrix = None
    /\ simulated_data = None
    /\ parameter_stats = None
    /\ matrices_ci = None
    /\ khi2_res = None
    /\ mc_draws = None
    /\ n_noise = 0
    /\ n_opt = 0
    /\ IdleCost
    /\ called = "__init__"
    /\ raised = ""

fit_frame == <<model_vars, sd_vars, cost_vars, params, iterations,
               experimental_matrix>>

\* PhysioFitter.optimize, run once
optimize ==
    /\ optimize_results = None
    /\ \E x \in GlobalMinima(time_vector, FitDeg, experimental_matrix,
                             Rows(sd), bounds) :
          /\ optimize_results' = OptimizeResult(x, time_vector, FitDeg,
                                                experimental_matrix, Rows(sd))
          /\ parameter_stats' = ("optimal" :> x)
          /\ simulated_matrix' = Simulate(x, time_vector, FitDeg).matrix
    /\ simulated_data' = NanMask(simulated_matrix', experimental_matrix)
    /\ n_opt' = 1
    /\ n_noise' = 0
    /\ called' = "optimize"
    /\ raised' = ""
    /\ UNCHANGED <<fit_frame, matrices_ci, khi2_res, mc_draws>>

McStore_replace(agg) ==
    /\ matrices_ci' = agg.ci
    /\ parameter_stats' = agg.stats

\* lines 383-389: matrices_ci is replaced, parameter_stats is updated
McStore(agg) ==
    /\ matrices_ci' = agg.ci
    /\ parameter_stats' = agg.stats @@ parameter_stats

\* PhysioFitter.monte_carlo_analysis, until it has run once
monte_carlo_analysis ==
    /\ matrices_ci = None
    /\ called' = "monte_carlo_analysis"
    /\ IF MonteCarloPrecondition(optimize_results) # ""
       THEN /\ raised' = MonteCarloPrecondition(optimize_results)
            /\ n_noise' = 0
            /\ n_opt' = 0
            /\ UNCHANGED <<parameter_stats, matrices_ci, mc_draws>>
       ELSE IF simulated_matrix = None
       THEN \* _apply_noise subscripts self.simulated_matrix before it draws
            /\ raised' = "TypeError: 'NoneType' object is not subscriptable"
            /\ n_noise' = 0
            /\ n_opt' = 0
            /\ UNCHANGED <<parameter_stats, matrices_ci, mc_draws>>
       ELSE \E draws \in [1..iterations ->
                            NoisyMatrices(simulated_matrix, Rows(sd))] :
            \/ /\ McStore(McAggregate(optimize_results.x, draws, time_vector,
                                       FitDeg, Rows(sd), bounds))
               /\ mc_draws' = draws
               /\ n_noise' = Len(draws)
               /\ n_opt' = Len(draws)
               /\ raised' = ""
            \/ \* np.percentile of an empty array raises in some numpy versions
               /\ draws = <<>>
               /\ raised' = "IndexError: index -1 is out of bounds for axis 0 with size 0"
               /\ n_noise' = 0
               /\ n_opt' = 0
               /\ UNCHANGED <<parameter_stats, matrices_ci, mc_draws>>
    /\ UNCHANGED <<fit_frame, optimize_results, simulated_matrix,
                   simulated_data, khi2_res>>

\* PhysioFitter.khi2_test
khi2_test ==
    /\ called' = "khi2_test"
    /\ n_noise' = 0
    /\ n_opt' = 0
    /\ IF optimize_results = None
       THEN /\ raised' = "AttributeError: 'NoneType' object has no attribute 'x'"
            /\ UNCHANGED khi2_res
       ELSE /\ khi2_res' = Khi2Res(optimize_results.x, params, time_vector,
                                   FitDeg, experimental_matrix, Rows(sd))
            /\ raised' = ""
    /\ UNCHANGED <<fit_frame, optimize_results, simulated_matrix,
                   simulated_data, parameter_stats, matrices_ci, mc_draws>>

NextFit == optimize \/ monte_carlo_analysis \/ khi2_test

SpecFit == InitFit /\ [][NextFit]_vars

\* C8: monte_carlo_analysis on an engine without a primary result raises the
\* sequencing error with no noise drawn and no optimization run, and leaves
\* parameter_stats and matrices_ci as they were.
C8_MonteCarloNeedsFit ==
    [][(optimize_results = None /\ called' = "monte_carlo_analysis") =>
        /\ raised' = "RuntimeError: Running Monte Carlo simulation without having run the optimization is impossible"
        /\ n_noise' = 0
        /\ n_opt' = 0
        /\ parameter_stats' = parameter_stats
        /\ matrices_ci' = matrices_ci]_vars

\* Monte-Carlo was called before optimize and raised
C8_Witness ==
    /\ called = "monte_carlo_analysis"
    /\ optimize_results = None
    /\ raised # ""
    /\ n_noise = 0

\* C9: with no degree of freedom left (measured cells - parameters <= 0),
\* khi2_test reports a degenerate result and stores no p-value.
C9_DegenerateReported ==
    (called = "khi2_test" /\ khi2_res # None
     /\ khi2_res.Degrees_of_freedom <= 0) =>
        /\ raised # "" \/ "degenerate" \in DOMAIN khi2_res
        /\ "p_val" \notin DOMAIN khi2_res

\* whether the engine holds the aggregates agg
SameAggregate(agg) ==
    /\ matrices_ci = agg.ci
    /\ \A k \in DOMAIN agg.stats : parameter_stats[k] = agg.stats[k]

Reverse(seq) == [i \in 1..Len(seq) |-> seq[Len(seq) + 1 - i]]

\* C10: the Monte-Carlo passes are independent, so the same noisy matrices
\* taken in reversed order give the same parameter statistics and the same
\* confidence bands.
C10_OrderIndependent ==
    (called = "monte_carlo_analysis" /\ raised = "") =>
        SameAggregate(McAggregate(optimize_results.x, Reverse(mc_draws),
                                  time_vector, FitDeg, Rows(sd), bounds))

\* the cells of the experimental matrix that are not measured
MissingCells(exp) ==
    {cell \in (1..Len(exp)) \X (1..Len(exp[1])) : IsNaN(exp[cell[1]][cell[2]])}

\* whether the cost against the target leaves out every cell of cells: the
\* term of such a cell is NaN, which np.nansum drops
LeftOut(cells, sim, target, sd_matrix) ==
    \A cell \in cells : IsNaN(CostVal(sim, target, sd_matrix)[cell[1]][cell[2]])

\* C11: in every cost evaluation of a fit, the primary one and those of the
\* re-optimization of each Monte-Carlo pass, a cell missing in the
\* experimental matrix contributes nothing: the noisy matrix of _apply_noise
\* never makes such a cell count.
C11_MissingCellsNeverCount ==
    /\ optimize_results # None =>
            LeftOut(MissingCells(experimental_matrix), simulated_matrix,
                    experimental_matrix, Rows(sd))
    /\ (called = "monte_carlo_analysis" /\ raised = "") =>
            \A i \in 1..Len(mc_draws) :
                LeftOut(MissingCells(experimental_matrix), simulated_matrix,
                        mc_draws[i], Rows(sd))

\* C12: whatever the number of iterations, a monte_carlo_analysis that
\* returns leaves optimize_results, simulated_matrix, the "optimal" entry of
\* parameter_stats, the SD matrix and the experimental matrix as they were,
\* and every noisy matrix is drawn from that unchanged simulated matrix.
C12_PrimaryResultKept ==
    [][(called' = "monte_carlo_analysis" /\ raised' = "") =>
        /\ optimize_results' = optimize_results
        /\ simulated_matrix' = simulated_matrix
        /\ "optimal" \in DOMAIN parameter_stats'
        /\ parameter_stats'["optimal"] = parameter_stats["optimal"]
        /\ sd' = sd
        /\ experimental_matrix' = experimental_matrix
        /\ Len(mc_draws') = iterations
        /\ \A i \in 1..Len(mc_draws') :
                mc_draws'[i] \in NoisyMatrices(simulated_matrix', Rows(sd'))]_vars

\* Monte-Carlo returned, with its statistics next to the primary result
C12_Witness ==
    /\ called = "monte_carlo_analysis"
    /\ raised = ""
    /\ iterations > 0
    /\ matrices_ci # None
    /\ "mean" \in DOMAIN parameter_stats
    /\ parameter_stats["optimal"] = optimize_results.x

=============================================================================
